---- MODULE Spec2Model ----
(***************************************************************************)
(* Model of the connectivity-trends pipeline: the Fetcher                  *)
(* (src/src/fetch_worldbank_data.py), the Cleaner (src/src/data_cleaning.py)*)
(* and the Visualizer (src/analysis/generate_visualizations.py).           *)
(*                                                                         *)
(* Each function under study has its own specification over its own        *)
(* variables; the variables of the other functions stay at their idle      *)
(* values:                                                                 *)
(*   SpecFetch     fetch_data             (pagination loop)                *)
(*   SpecDiscover  discover_indicator_id  (catalog lookup with fallback)   *)
(*   SpecNormalize normalize_data         (flattening of records)          *)
(*   SpecCanon     country_mapping        (name canonicalization)          *)
(*   SpecClean     clean_data             (cleaning pass)                  *)
(*   SpecPlot      plot_top_countries, plot_regional_comparison            *)
(*   SpecPipeline  main() of each stage, run over the filesystem           *)
(***************************************************************************)
EXTENDS Integers, Sequences, FiniteSets, TLC

VARIABLES
    \* fetch_data
    page,          \* the local `page`
    all_data,      \* the local `all_data`
    fetchPc,       \* "idle" | "loop" | "done" (returned all_data) | "raised"
    requested,     \* history: the page numbers requested, in order
    responses,     \* history: the response to each request, in order
    \* discover_indicator_id
    catalog,       \* the catalog endpoint's response
    discPc,        \* "idle" | "start" | "done"
    discResult,    \* [outcome, value]: what the call returned or raised
    \* normalize_data
    raw_data,      \* the argument `raw_data`
    normPc,        \* "idle" | "start" | "done"
    normResult,    \* [outcome, df, converted]: what the call returned
    \* country_mapping
    canonHistory,  \* a Country value, then the value after each replace(country_mapping)
    \* clean_data
    raw_df,        \* the raw table given to clean_data
    cleanPc,       \* "idle" | "start" | "cleaned" | "recleaned"
    cleaned,       \* [outcome, df, exc]: result of clean_data(raw_df)
    recleaned,     \* [outcome, df, exc]: result of clean_data on cleaned.df
    clock,         \* the reading of datetime.now()
    \* plot_top_countries, plot_regional_comparison
    plot_df,       \* the argument `df`, as read from the cleaned snapshot
    plot_year,     \* the argument `year`
    plotPc,        \* "idle" | "start" | "done"
    chart,         \* [outcome, file, year, rows]: what the call left behind
    \* the stages' main(), run one after another over the filesystem
    fs,            \* the files: path -> content
    tick,          \* the reading of datetime.now() at the next run, in seconds
    lastRaw,       \* history: what the last completed Fetcher run saved
    lastClean,     \* history: what the last completed Cleaner run saved
    lastRun        \* history: the stage run that ended last

fetchVars == <<page, all_data, fetchPc, requested, responses>>
discVars  == <<catalog, discPc, discResult>>
normVars  == <<raw_data, normPc, normResult>>
canonVars == <<canonHistory>>
cleanVars == <<raw_df, cleanPc, cleaned, recleaned, clock>>
plotVars  == <<plot_df, plot_year, plotPc, chart>>
pipeVars  == <<fs, tick, lastRaw, lastClean, lastRun>>
vars == <<fetchVars, discVars, normVars, canonVars, cleanVars, plotVars, pipeVars>>

(***************************************************************************)
(* Bounds                                                                  *)
(***************************************************************************)
\* per_page of fetch_data (1000 in the source, line 101), scaled down
PerPage == 2
\* most pages one run of fetch_data may request in the model
MaxPages == 3
\* most entries of the indicator catalog
MaxCatalog == 2
\* most records given to normalize_data
MaxItems == 2
\* most rows of the raw table given to clean_data
MaxRows == 2
\* most rows of the table given to a plot function
MaxPlotRows == 3
\* most stage runs in one behaviour of the pipeline
MaxRuns == 4
\* most records one Fetcher run fetches
MaxFetched == 2
\* how many times country_mapping is applied in a row
MaxReplace == 2
\* the clock reading of datetime.now() at the first call; each call advances it
FirstClock == 1

(***************************************************************************)
(* Helpers                                                                 *)
(***************************************************************************)
SeqsUpTo(S, n) == UNION {[1..k -> S] : k \in 0..n}

\* A cell of a JSON object or of a table: a string, a number, null (None, NaN,
\* pd.NA) or, for a JSON object, an absent key.  Numbers are held in tenths, so
\* that 55.5 is 555 and 2020 is 20200.
Str(s) == [kind |-> "str", text |-> s, num |-> 0]
Num(n) == [kind |-> "num", text |-> "", num |-> n]
NaN    == [kind |-> "null", text |-> "", num |-> 0]
Absent == [kind |-> "absent", text |-> "", num |-> 0]

\* str.lower() on the texts of the model
Lower(s) ==
    CASE s = "Households with fixed broadband" -> "households with fixed broadband"
      [] s = "HOUSEHOLDS WITH A MOBILE PHONE" -> "households with a mobile phone"
      [] s = "Fixed telephone subscriptions" -> "fixed telephone subscriptions"
      [] s = "Mobile cellular subscriptions" -> "mobile cellular subscriptions"
      [] s = "Individuals using the Internet" -> "individuals using the internet"
      [] OTHER -> s

\* `word in text` on the lowercase texts of the model
Contains(text, word) ==
    <<text, word>> \in
        {<<"households with fixed broadband", "household">>,
         <<"households with fixed broadband", "fixed">>,
         <<"households with a mobile phone", "household">>,
         <<"households with a mobile phone", "mobile">>,
         <<"fixed telephone subscriptions", "fixed">>,
         <<"mobile cellular subscriptions", "mobile">>}

\* the exceptions the modelled calls raise
RequestExceptions == {"ConnectionError", "HTTPError"}

\* (mutant) only a connection failure is caught
IsRequestException_OnlyConnection(exc) == exc = "ConnectionError"
\* `except requests.exceptions.RequestException`
IsRequestException(exc) == exc \in RequestExceptions

(***************************************************************************)
(* fetch_data                                                              *)
(***************************************************************************)
\* the records a page carries are opaque to fetch_data
RecordIds == {"a", "b"}

\* What one GET of the series endpoint can produce:
\*   ConnectionError  requests.get raises
\*   HTTPError        raise_for_status raises
\*   one_element      200, body is a one-element array (the API's error message)
\*   null_records     200, body is [metadata, null]
\*   not_array        200, body is JSON null: len(response_data) raises TypeError
\*   page             200, body is [metadata, records]
SeriesResponses ==
    [kind : {"ConnectionError", "HTTPError", "one_element", "null_records", "not_array"},
     body : {<<>>}]
    \cup [kind : {"page"}, body : SeqsUpTo(RecordIds, PerPage)]

\* the exception the try block raises for a response ("none": it completes)
FetchRaises(resp) ==
    CASE resp.kind \in RequestExceptions -> resp.kind
      [] resp.kind = "not_array" -> "TypeError"
      [] OTHER -> "none"

\* `len(response_data) < 2 or not response_data[1]`
NoData(resp) == resp.kind \in {"one_element", "null_records"} \/ resp.body = <<>>

\* (mutant) a full page ends the loop too
ReachedLastPage_OffByOne(data_batch) == Len(data_batch) <= PerPage
\* `len(data_batch) < per_page`
ReachedLastPage(data_batch) == Len(data_batch) < PerPage

FetchInit ==
    /\ page = 1
    /\ all_data = <<>>
    /\ fetchPc = "loop"
    /\ requested = <<>>
    /\ responses = <<>>

FetchIdle ==
    /\ page = 0
    /\ all_data = <<>>
    /\ fetchPc = "idle"
    /\ requested = <<>>
    /\ responses = <<>>

\* one iteration of `while True`, for the response resp to the request of `page`
LoopBody(resp) ==
    /\ requested' = Append(requested, page)
    /\ responses' = Append(responses, resp)
    /\ IF FetchRaises(resp) # "none"
       THEN /\ fetchPc' = IF IsRequestException(FetchRaises(resp)) THEN "done" ELSE "raised"
            /\ UNCHANGED <<page, all_data>>
       ELSE IF NoData(resp)
       THEN /\ fetchPc' = "done"
            /\ UNCHANGED <<page, all_data>>
       ELSE /\ all_data' = all_data \o resp.body
            /\ IF ReachedLastPage(resp.body)
               THEN fetchPc' = "done" /\ page' = page
               ELSE fetchPc' = "loop" /\ page' = page + 1

FetchPage ==
    /\ fetchPc = "loop"
    /\ \E resp \in SeriesResponses :
          \* the model's server ends the series by page MaxPages
          /\ (page = MaxPages /\ resp.kind = "page") => Len(resp.body) < PerPage
          /\ LoopBody(resp)
    /\ UNCHANGED <<discVars, normVars, canonVars, cleanVars, plotVars, pipeVars>>

(***************************************************************************)
(* discover_indicator_id                                                   *)
(***************************************************************************)
FALLBACK_ID == "IT.NET.USER.ZS"

CatalogNames ==
    {Absent, NaN, Str("Households with fixed broadband"),
     Str("HOUSEHOLDS WITH A MOBILE PHONE"), Str("Fixed telephone subscriptions"),
     Str("Individuals using the Internet")}
CatalogIds == {Absent, Str("IT.HH.FIX"), Str("IT.HH.MOB")}
CatalogEntries == [name : CatalogNames, id : CatalogIds]

\* What the GET of the catalog endpoint can produce:
\*   ConnectionError  requests.get raises
\*   HTTPError        raise_for_status raises
\*   one_element      200, body is a one-element array (the API's error message)
\*   null_records     200, body is [metadata, null]
\*   not_array        200, body is JSON null
\*   catalog          200, body is [metadata, indicators]
CatalogResponses ==
    [kind : {"ConnectionError", "HTTPError", "one_element", "null_records", "not_array"},
     body : {<<>>}]
    \cup [kind : {"catalog"}, body : SeqsUpTo(CatalogEntries, MaxCatalog)]

\* indicator.get("name", "")
GetName(indicator) == IF indicator.name = Absent THEN Str("") ELSE indicator.name

\* the condition of line 61 (its operand is a string)
IsRelevant(indicator) ==
    LET name == Lower(GetName(indicator).text) IN
    Contains(name, "household") /\ (Contains(name, "fixed") \/ Contains(name, "mobile"))

\* the exception the try block raises before the search ends ("none": it does not)
DiscoverRaises(resp) ==
    CASE resp.kind \in RequestExceptions -> resp.kind
      [] resp.kind = "one_element" -> "IndexError"
      [] resp.kind \in {"null_records", "not_array"} -> "TypeError"
      [] \E i \in 1..Len(resp.body) : resp.body[i].name = NaN -> "AttributeError"
      [] OTHER -> "none"

\* the body of discover_indicator_id for the catalog response resp
DiscoverIndicatorId(resp) ==
    LET exc == DiscoverRaises(resp) IN
    IF exc # "none"
    THEN IF IsRequestException(exc)
         THEN [outcome |-> "returned", value |-> FALLBACK_ID]
         ELSE [outcome |-> "raised", value |-> exc]
    ELSE LET relevant_indicators == SelectSeq(resp.body, IsRelevant) IN
         IF relevant_indicators = <<>>
         THEN [outcome |-> "returned", value |-> FALLBACK_ID]
         ELSE IF relevant_indicators[1].id = Absent
         THEN [outcome |-> "raised", value |-> "KeyError"]
         ELSE [outcome |-> "returned", value |-> relevant_indicators[1].id.text]

DiscInit ==
    /\ catalog \in CatalogResponses
    /\ discPc = "start"
    /\ discResult = [outcome |-> "none", value |-> ""]

DiscIdle ==
    /\ catalog = [kind |-> "none", body |-> <<>>]
    /\ discPc = "idle"
    /\ discResult = [outcome |-> "none", value |-> ""]

Discover ==
    /\ discPc = "start"
    /\ discResult' = DiscoverIndicatorId(catalog)
    /\ discPc' = "done"
    /\ UNCHANGED <<catalog, fetchVars, normVars, canonVars, cleanVars, plotVars, pipeVars>>

(***************************************************************************)
(* pandas conversions                                                      *)
(***************************************************************************)
\* float(text) for the texts of the model, in tenths; NaN for a text that is
\* no number
ParseNumber(text) ==
    CASE text = "2019" -> Num(20190)
      [] text = "2020" -> Num(20200)
      [] text = "2020.0" -> Num(20200)
      [] text = "2020.5" -> Num(20205)
      [] text = "2021" -> Num(20210)
      [] text = "55.5" -> Num(555)
      [] text = "55.50" -> Num(555)
      [] text = "60" -> Num(600)
      [] OTHER -> NaN

\* pd.to_numeric(cell, errors='coerce')
ToNumeric(cell) ==
    CASE cell.kind = "num" -> cell
      [] cell.kind = "str" -> ParseNumber(cell.text)
      [] OTHER -> NaN

\* whether a float cell is a whole number (what astype('Int64') accepts)
IsWhole(cell) == cell.kind = "num" => cell.num % 10 = 0

(***************************************************************************)
(* normalize_data                                                          *)
(***************************************************************************)
\* A record of the API.  isdict = FALSE is an array element that is no object.
\* country and indicator stand for the nested objects: Absent (no key), NaN
\* (JSON null) or Str(v), an object whose 'value' is v.
RawItems ==
    [isdict : {TRUE},
     country : {Absent, NaN, Str("Namibia"), Str("Kenya")},
     countryiso3code : {Str("XXX")},
     date : {Absent, Str("2020"), Str("2020.5")},
     value : {NaN, Num(555)},
     indicator : {NaN, Str("Individuals using the Internet")}]
    \cup
    [isdict : {FALSE}, country : {Absent}, countryiso3code : {Absent},
     date : {Absent}, value : {Absent}, indicator : {Absent}]

\* whether building `record` from item raises (lines 157-166)
RecordRaises(item) ==
    \/ ~ item.isdict           \* item.get: no such attribute
    \/ item.country = NaN      \* None.get
    \/ item.indicator = NaN    \* None.get

\* d.get(key, default) on a cell of the item
GetOr(cell, default) == IF cell = Absent THEN default ELSE cell

\* the dict built at lines 157-166
MakeRecord(item) ==
    [Country |-> GetOr(item.country, Str("Unknown")),
     Country_Code |-> GetOr(item.countryiso3code, Str("Unknown")),
     Year |-> GetOr(item.date, Str("Unknown")),
     Value |-> GetOr(item.value, NaN),
     UNIT_MEASURE |-> Str("Percentage"),
     OBS_STATUS |-> IF GetOr(item.value, NaN) # NaN THEN Str("Regular") ELSE Str("Missing"),
     Indicator |-> GetOr(item.indicator, Str("Unknown")),
     Indicator_Code |-> IF item.indicator = Absent THEN Str("Unknown")
                        ELSE Str("IT.NET.USER.ZS"),
     processed_at |-> Absent]

RECURSIVE NormalizeRecords_AbortOnError(_)
\* (mutant) the first record that raises ends the batch
NormalizeRecords_AbortOnError(items) ==
    IF items = <<>> \/ RecordRaises(Head(items)) THEN <<>>
    ELSE <<MakeRecord(Head(items))>> \o NormalizeRecords_AbortOnError(Tail(items))

RECURSIVE NormalizeRecords(_)
\* the loop of lines 155-170: `normalized_data`
NormalizeRecords(items) ==
    IF items = <<>> THEN <<>>
    ELSE (IF RecordRaises(Head(items)) THEN <<>> ELSE <<MakeRecord(Head(items))>>)
         \o NormalizeRecords(Tail(items))

\* the try block of lines 175-183 on the rows of df, at clock reading now: the
\* exception it raises ("none": it completes)
ConversionRaises(rows) ==
    IF rows = <<>> THEN "KeyError"      \* an empty DataFrame has no 'Year' column
    ELSE IF \E i \in 1..Len(rows) : ~ IsWhole(ToNumeric(rows[i].Year)) THEN "TypeError"
    ELSE "none"

ConvertTypes(rows, now) ==
    [i \in 1..Len(rows) |->
        [rows[i] EXCEPT !.Year = ToNumeric(rows[i].Year),
                        !.Value = ToNumeric(rows[i].Value),
                        !.processed_at = Num(now)]]

\* the body of normalize_data
NormalizeData(items, now) ==
    LET rows == NormalizeRecords(items) IN
    IF ConversionRaises(rows) # "none"
    THEN [outcome |-> "returned", df |-> rows, converted |-> FALSE]
    ELSE [outcome |-> "returned", df |-> ConvertTypes(rows, now), converted |-> TRUE]

NormInit ==
    /\ raw_data \in SeqsUpTo(RawItems, MaxItems)
    /\ normPc = "start"
    /\ normResult = [outcome |-> "none", df |-> <<>>, converted |-> FALSE]

NormIdle ==
    /\ raw_data = <<>>
    /\ normPc = "idle"
    /\ normResult = [outcome |-> "none", df |-> <<>>, converted |-> FALSE]

Normalize ==
    /\ normPc = "start"
    /\ normResult' = NormalizeData(raw_data, FirstClock)
    /\ normPc' = "done"
    /\ UNCHANGED <<raw_data, fetchVars, discVars, canonVars, cleanVars, plotVars, pipeVars>>

(***************************************************************************)
(* country_mapping                                                         *)
(***************************************************************************)
\* (mutant) a target that is itself a key
CountryMapping_Chained(name) ==
    CASE name = "United States" -> "USA"
      [] name = "USA" -> "United States of America"
      [] name = "US" -> "USA"
      [] OTHER -> name

\* the dict `country_mapping`, as the function replace() applies: a key goes
\* to its value, any other name to itself
CountryMapping(name) ==
    CASE name = "United States" -> "United States of America"
      [] name = "USA" -> "United States of America"
      [] name = "US" -> "United States of America"
      [] name = "UK" -> "United Kingdom"
      [] name = "Great Britain" -> "United Kingdom"
      [] name = "Republic of Korea" -> "South Korea"
      [] name = "Korea, Rep." -> "South Korea"
      [] name = "Korea, Dem. Rep." -> "North Korea"
      [] name = "Congo, Dem. Rep." -> "Democratic Republic of the Congo"
      [] name = "Congo, Rep." -> "Republic of Congo"
      [] name = "Viet Nam" -> "Vietnam"
      [] name = "Russian Federation" -> "Russia"
      [] name = "Iran, Islamic Rep." -> "Iran"
      [] name = "Egypt, Arab Rep." -> "Egypt"
      [] name = "Hong Kong SAR, China" -> "Hong Kong"
      [] name = "Macao SAR, China" -> "Macao"
      [] OTHER -> name

\* the keys of country_mapping
MappingKeys ==
    {"United States", "USA", "US", "UK", "Great Britain", "Republic of Korea",
     "Korea, Rep.", "Korea, Dem. Rep.", "Congo, Dem. Rep.", "Congo, Rep.",
     "Viet Nam", "Russian Federation", "Iran, Islamic Rep.", "Egypt, Arab Rep.",
     "Hong Kong SAR, China", "Macao SAR, China"}

\* the values of country_mapping
MappingTargets ==
    {"United States of America", "United Kingdom", "South Korea", "North Korea",
     "Democratic Republic of the Congo", "Republic of Congo", "Vietnam", "Russia",
     "Iran", "Egypt", "Hong Kong", "Macao"}

\* the dict `regions` of plot_regional_comparison
Regions ==
    [r \in {"North America", "Europe", "Asia", "Africa", "South America", "Oceania"} |->
        CASE r = "North America" -> {"United States", "Canada", "Mexico"}
          [] r = "Europe" -> {"United Kingdom", "Germany", "France", "Italy", "Spain"}
          [] r = "Asia" -> {"China", "Japan", "India", "South Korea", "Indonesia"}
          [] r = "Africa" -> {"South Africa", "Nigeria", "Kenya", "Egypt", "Morocco"}
          [] r = "South America" -> {"Brazil", "Argentina", "Colombia", "Chile", "Peru"}
          [] r = "Oceania" -> {"Australia", "New Zealand"}]

RegionMembers == UNION {Regions[r] : r \in DOMAIN Regions}

\* the Country values of the model: every key and value of the map, every
\* region member, and names the map does not mention
CountryNames ==
    MappingKeys \cup MappingTargets \cup RegionMembers \cup {"Namibia", "Unknown"}

\* Series.replace(country_mapping) on one cell
ReplaceCountry(cell) ==
    IF cell.kind = "str" THEN Str(CountryMapping(cell.text)) ELSE cell

CanonInit == canonHistory \in {<<Str(n)>> : n \in CountryNames}

CanonIdle == canonHistory = <<>>

Replace ==
    /\ canonHistory # <<>>
    /\ Len(canonHistory) <= MaxReplace
    /\ canonHistory' = Append(canonHistory, ReplaceCountry(canonHistory[Len(canonHistory)]))
    /\ UNCHANGED <<fetchVars, discVars, normVars, cleanVars, plotVars, pipeVars>>

(***************************************************************************)
(* clean_data                                                              *)
(***************************************************************************)
\* the rows of a raw table, as text cells (a missing cell is NaN); the two
\* derived columns are absent from a raw table
RawRows ==
    [Country : {NaN, Str("USA"), Str("US")},
     Year : {Str("2020"), Str("2020.5"), Str("n/a")},
     Value : {Str("55.5"), Str("55.50"), Str("n/a")},
     Indicator : {NaN, Str("Fixed telephone subscriptions"),
                  Str("Mobile cellular subscriptions")},
     processed_at : {Num(0)},
     indicator_clean : {Absent},
     connection_type : {Absent}]

\* Series.fillna('Unknown') on one cell
FillNa(cell) == IF cell = NaN THEN Str("Unknown") ELSE cell

\* steps 1 to 5 (lines 73-116) on the rows, when step 4 does not raise
Standardize(rows, now) ==
    [i \in 1..Len(rows) |->
        [rows[i] EXCEPT !.Country = ReplaceCountry(FillNa(rows[i].Country)),
                        !.Value = ToNumeric(rows[i].Value),
                        !.Year = ToNumeric(rows[i].Year),
                        !.processed_at = Num(now)]]

\* (mutant) nothing is dropped
DropDuplicates_KeepAll(rows) == rows

RECURSIVE DropDuplicates(_)
\* DataFrame.drop_duplicates(): a row equal in every column to an earlier row
\* is dropped (missing cells compare equal)
DropDuplicates(rows) ==
    IF rows = <<>> THEN <<>>
    ELSE LET n == Len(rows)
             init == DropDuplicates(SubSeq(rows, 1, n - 1))
         IN  IF \E i \in 1..(n - 1) : rows[i] = rows[n] THEN init
             ELSE Append(init, rows[n])

\* (mutant) duplicates are dropped before the cells are standardized
StandardizeAndDedup_DedupFirst(rows, now) == Standardize(DropDuplicates(rows), now)

\* steps 1 to 6 (lines 73-123)
StandardizeAndDedup(rows, now) == DropDuplicates(Standardize(rows, now))

\* lines 132-137 for the text indicator_name
ConnectionType(indicator_name) ==
    IF Contains(Lower(indicator_name), "fixed") THEN "fixed-line"
    ELSE IF Contains(Lower(indicator_name), "mobile") THEN "mobile"
    ELSE "unknown"

\* step 7 (lines 126-137) on the deduplicated rows, whose first row holds a text
AddIndicatorColumns(rows) ==
    LET indicator_name == rows[1].Indicator IN
    [i \in 1..Len(rows) |->
        [rows[i] EXCEPT !.indicator_clean = indicator_name,
                        !.connection_type = Str(ConnectionType(indicator_name.text))]]

\* the exception clean_data raises on a non-empty table ("none": it returns);
\* drop_duplicates keeps the first row, so `iloc[0]` is the first row given
CleanRaises(rows) ==
    \* astype('Int64') refuses a float that is no whole number
    IF \E i \in 1..Len(rows) : ~ IsWhole(ToNumeric(rows[i].Year)) THEN "TypeError"
    \* a missing Indicator is a float, which has no lower()
    ELSE IF rows[1].Indicator.kind # "str" THEN "AttributeError"
    ELSE "none"

\* the body of clean_data, at clock reading now
CleanData(rows, now) ==
    IF rows = <<>>
    THEN [outcome |-> "none", df |-> <<>>, exc |-> "none"]
    ELSE IF CleanRaises(rows) # "none"
    THEN [outcome |-> "raised", df |-> <<>>, exc |-> CleanRaises(rows)]
    ELSE [outcome |-> "returned",
          df |-> AddIndicatorColumns(StandardizeAndDedup(rows, now)),
          exc |-> "none"]

NoResult == [outcome |-> "idle", df |-> <<>>, exc |-> "none"]

CleanInit ==
    /\ raw_df \in SeqsUpTo(RawRows, MaxRows)
    /\ cleanPc = "start"
    /\ cleaned = NoResult
    /\ recleaned = NoResult
    /\ clock = FirstClock

CleanIdle ==
    /\ raw_df = <<>>
    /\ cleanPc = "idle"
    /\ cleaned = NoResult
    /\ recleaned = NoResult
    /\ clock = 0

\* clean_data(raw_df)
Clean ==
    /\ cleanPc = "start"
    /\ cleaned' = CleanData(raw_df, clock)
    /\ clock' = clock + 1
    /\ cleanPc' = "cleaned"
    /\ UNCHANGED <<raw_df, recleaned, fetchVars, discVars, normVars, canonVars, plotVars, pipeVars>>

\* clean_data on the table the first call returned
CleanAgain ==
    /\ cleanPc = "cleaned"
    /\ cleaned.outcome = "returned"
    /\ recleaned' = CleanData(cleaned.df, clock)
    /\ clock' = clock + 1
    /\ cleanPc' = "recleaned"
    /\ UNCHANGED <<raw_df, cleaned, fetchVars, discVars, normVars, canonVars, plotVars, pipeVars>>

(***************************************************************************)
(* plot_top_countries, plot_regional_comparison                            *)
(***************************************************************************)
\* the default of the parameter n of plot_top_countries
TopN == 10

\* the rows of a cleaned snapshot as read_csv returns them: Year and Value
\* are floats, NaN where the cell is empty
PlotRows ==
    [Country : {"Canada", "Namibia"},
     Year : {Num(20190), Num(20200), NaN},
     Value : {Num(555), Num(600)}]

\* a < b on floats: false whenever either side is NaN
Lt(a, b) == a.kind = "num" /\ b.kind = "num" /\ a.num < b.num

\* a == b on floats: false whenever either side is NaN
Eq(a, b) == a.kind = "num" /\ b.kind = "num" /\ a.num = b.num

\* Series.unique(): the distinct values in order of first appearance, all
\* NaN being one value
RECURSIVE Unique(_)
Unique(cells) ==
    IF cells = <<>> THEN <<>>
    ELSE LET n == Len(cells)
             init == Unique(SubSeq(cells, 1, n - 1))
         IN  IF \E i \in 1..(n - 1) : cells[i] = cells[n] THEN init
             ELSE Append(init, cells[n])

Reverse(s) == [i \in 1..Len(s) |-> s[Len(s) + 1 - i]]

\* list.sort's count_run: the length of the run that starts the list, and
\* whether it is strictly descending
RunDescending(s) == Len(s) >= 2 /\ Lt(s[2], s[1])
RunLength(s) ==
    IF Len(s) < 2 THEN Len(s)
    ELSE LET InRun(j) == IF RunDescending(s) THEN Lt(s[j], s[j - 1])
                         ELSE ~ Lt(s[j], s[j - 1])
         IN  CHOOSE k \in 2..Len(s) :
                 /\ \A j \in 3..k : InRun(j)
                 /\ k = Len(s) \/ ~ InRun(k + 1)

\* list.sort's binarysort: where pivot goes in the sorted s[l+1..r]
RECURSIVE InsertionPoint(_, _, _, _)
InsertionPoint(s, pivot, l, r) ==
    IF l >= r THEN l
    ELSE LET p == l + ((r - l) \div 2) IN
         IF Lt(pivot, s[p + 1]) THEN InsertionPoint(s, pivot, l, p)
         ELSE InsertionPoint(s, pivot, p + 1, r)

\* list.sort's binarysort: s with its first `start` elements sorted
RECURSIVE BinarySort(_, _)
BinarySort(s, start) ==
    IF start >= Len(s) THEN s
    ELSE LET pivot == s[start + 1]
             l == InsertionPoint(s, pivot, 0, start)
         IN  BinarySort(SubSeq(s, 1, l) \o <<pivot>> \o SubSeq(s, l + 1, start)
                            \o SubSeq(s, start + 2, Len(s)),
                        start + 1)

\* sorted(s), as CPython sorts a list shorter than 64: the leading run is
\* found (and reversed when descending) and the rest is inserted by binary
\* search, every comparison being `<`
Sorted(s) ==
    LET n == RunLength(s)
        run == IF RunDescending(s) THEN Reverse(SubSeq(s, 1, n)) ELSE SubSeq(s, 1, n)
    IN  BinarySort(run \o SubSeq(s, n + 1, Len(s)), n)

\* df[df['Year'] == year]
RowsOfYear(df, year) == SelectSeq(df, LAMBDA row : Eq(row.Year, year))

\* sorted(df['Year'].unique())
AvailableYears(df) == Sorted(Unique([i \in 1..Len(df) |-> df[i].Year]))

\* the year the chart is drawn for (lines 79-89, 130-140): the year asked for
\* when it has rows, else the last of the available years; Absent when the
\* function returns for want of any year
ChartYear(df, year) ==
    IF RowsOfYear(df, year) # <<>> THEN year
    ELSE IF AvailableYears(df) = <<>> THEN Absent
    ELSE AvailableYears(df)[Len(AvailableYears(df))]

\* whether row a goes before row b in sort_values('Value', ascending=False):
\* NaN goes last
ValueBefore(a, b) == a.Value.kind = "num" /\ (b.Value.kind # "num" \/ a.Value.num > b.Value.num)

\* sort_values('Value', ascending=False): rows of equal Value keep their order
RECURSIVE SortByValueDesc(_)
SortByValueDesc(rows) ==
    IF rows = <<>> THEN <<>>
    ELSE LET n == Len(rows)
             init == SortByValueDesc(SubSeq(rows, 1, n - 1))
             k == Cardinality({i \in 1..Len(init) : ~ ValueBefore(rows[n], init[i])})
         IN  SubSeq(init, 1, k) \o <<rows[n]>> \o SubSeq(init, k + 1, Len(init))

\* DataFrame.head(n)
Head_n(rows, n) == SubSeq(rows, 1, IF Len(rows) < n THEN Len(rows) ELSE n)

NoChart == [outcome |-> "none", file |-> "", year |-> Absent, rows |-> <<>>]

\* the body of plot_top_countries(df, year, n)
TopCountriesChart(df, year, n) ==
    LET used == ChartYear(df, year) IN
    IF used = Absent
    THEN [NoChart EXCEPT !.outcome = "returned"]
    ELSE [outcome |-> "saved", file |-> "top_countries", year |-> used,
          rows |-> Head_n(SortByValueDesc(RowsOfYear(df, used)), n)]

\* the order of the dict `regions`
RegionOrder == <<"North America", "Europe", "Asia", "Africa", "South America", "Oceania">>

\* Series.mean() of the Value cells, NaN skipped: the sum (in tenths) and the
\* count of the numbers
RECURSIVE SumValues(_)
SumValues(rows) ==
    IF rows = <<>> THEN 0
    ELSE (IF Head(rows).Value.kind = "num" THEN Head(rows).Value.num ELSE 0)
         + SumValues(Tail(rows))
MeanValue(rows) ==
    [sum |-> SumValues(rows),
     count |-> Len(SelectSeq(rows, LAMBDA row : row.Value.kind = "num"))]

\* the list `regional_avgs` (lines 143-148)
RECURSIVE RegionalAvgs(_, _)
RegionalAvgs(year_data, regions) ==
    IF regions = <<>> THEN <<>>
    ELSE LET region_data == SelectSeq(year_data,
                                LAMBDA row : row.Country \in Regions[Head(regions)])
         IN  (IF region_data # <<>>
              THEN <<[Region |-> Head(regions), Value |-> MeanValue(region_data)]>>
              ELSE <<>>)
             \o RegionalAvgs(year_data, Tail(regions))

\* the body of plot_regional_comparison(df, year)
RegionalComparisonChart(df, year) ==
    LET used == ChartYear(df, year) IN
    IF used = Absent
    THEN [NoChart EXCEPT !.outcome = "returned"]
    ELSE LET regional_avgs == RegionalAvgs(RowsOfYear(df, used), RegionOrder) IN
         IF regional_avgs = <<>>
         \* a DataFrame built from an empty list has no 'Region' column
         THEN [NoChart EXCEPT !.outcome = "raised", !.file = "KeyError", !.year = used]
         ELSE [outcome |-> "saved", file |-> "regional_comparison", year |-> used,
               rows |-> regional_avgs]

PlotInit ==
    /\ plot_df \in SeqsUpTo(PlotRows, MaxPlotRows)
    /\ plot_year \in {Num(20200), Num(20210)}
    /\ plotPc = "start"
    /\ chart = NoChart

PlotIdle ==
    /\ plot_df = <<>>
    /\ plot_year = Absent
    /\ plotPc = "idle"
    /\ chart = NoChart

PlotTopCountries ==
    /\ plotPc = "start"
    /\ chart' = TopCountriesChart(plot_df, plot_year, TopN)
    /\ plotPc' = "done"
    /\ UNCHANGED <<plot_df, plot_year, fetchVars, discVars, normVars, canonVars, cleanVars, pipeVars>>

PlotRegionalComparison ==
    /\ plotPc = "start"
    /\ chart' = RegionalComparisonChart(plot_df, plot_year)
    /\ plotPc' = "done"
    /\ UNCHANGED <<plot_df, plot_year, fetchVars, discVars, normVars, canonVars, cleanVars, pipeVars>>

(***************************************************************************)
(* The stages: main() of the Fetcher, the Cleaner and the two Visualizer   *)
(* scripts, each run to its end, one after another, over the filesystem.   *)
(* A table is held by its row count and by whether it has columns; the     *)
(* directories the scripts read are taken to exist.                        *)
(***************************************************************************)
\* the directory each script is run from: the one its relative paths are
\* written for
SrcDir == <<"repo", "src">>
RootDir == <<"repo">>
AnalysisDir == <<"repo", "analysis">>

\* OUTPUT_DIR of fetch_worldbank_data.py
FETCH_OUTPUT_DIR == <<"..", "data", "raw">>
\* INPUT_DIR and OUTPUT_DIR of data_cleaning.py
CLEAN_INPUT_DIR == <<"..", "data", "raw">>
CLEAN_OUTPUT_DIR == <<"..", "data", "processed">>
\* INPUT_DIR and OUTPUT_DIR of generate_visualizations.py
VIZ_INPUT_DIR == <<"data", "processed">>
VIZ_OUTPUT_DIR == <<"analysis", "plots">>
\* DATA_DIR and PLOTS_DIR of generate_eda.py
EDA_DATA_DIR == <<"..", "data">>
EDA_PLOTS_DIR == <<"..", "analysis", "plots">>

\* the directory a relative path names when the process runs in cwd
RECURSIVE Resolve(_, _)
Resolve(cwd, rel) ==
    IF rel = <<>> THEN cwd
    ELSE IF Head(rel) = ".." THEN Resolve(SubSeq(cwd, 1, Len(cwd) - 1), Tail(rel))
    ELSE Resolve(Append(cwd, Head(rel)), Tail(rel))

\* file names: <stem>_latest.<ext>, <stem>_<timestamp>.<ext>, <stem>.<ext>
LatestName(stem, ext) == [stem |-> stem, tag |-> "latest", ts |-> 0, ext |-> ext]
StampedName(stem, ts, ext) == [stem |-> stem, tag |-> "ts", ts |-> ts, ext |-> ext]
PlainName(stem, ext) == [stem |-> stem, tag |-> "", ts |-> 0, ext |-> ext]

\* os.path.join(dir, name), for a process running in cwd
Join(cwd, dir, name) == [dir |-> Resolve(cwd, dir), name |-> name]

\* a < b on the names of one stem and extension, as strings: a digit sorts
\* before the letter l, and timestamps of equal width sort by time
NameLt(a, b) ==
    \/ a.tag = "ts" /\ b.tag = "latest"
    \/ a.tag = "ts" /\ b.tag = "ts" /\ a.ts < b.ts

\* the content of a file: who wrote it, at what time, the table's row count
\* and whether the table has columns
Table(stage, ts, rows) == [stage |-> stage, ts |-> ts, rows |-> rows, cols |-> rows > 0]
NoTable == [stage |-> "none", ts |-> 0, rows |-> 0, cols |-> FALSE]
\* a header-only file, put there before any run
HeaderOnly == [stage |-> "user", ts |-> 0, rows |-> 0, cols |-> TRUE]
\* a cleaned snapshot copied by hand
HandCopy == [stage |-> "user", ts |-> 0, rows |-> 1, cols |-> TRUE]

\* os.path.exists(path)
Exists(path) == path \in DOMAIN fs

\* the filesystem after each of paths is written with content
WriteAll(files, paths, content) ==
    [q \in DOMAIN files \cup paths |-> IF q \in paths THEN content ELSE files[q]]

\* the files save_raw_data writes (lines 199-209)
RawSnapshotPaths(ts) ==
    {Join(SrcDir, FETCH_OUTPUT_DIR, StampedName("raw_data", ts, "csv")),
     Join(SrcDir, FETCH_OUTPUT_DIR, StampedName("raw_data", ts, "json")),
     Join(SrcDir, FETCH_OUTPUT_DIR, LatestName("raw_data", "csv")),
     Join(SrcDir, FETCH_OUTPUT_DIR, LatestName("raw_data", "json"))}

\* the files save_cleaned_data writes (lines 157-167)
CleanedSnapshotPaths(ts) ==
    {Join(SrcDir, CLEAN_OUTPUT_DIR, StampedName("cleaned_data", ts, "csv")),
     Join(SrcDir, CLEAN_OUTPUT_DIR, StampedName("cleaned_data", ts, "json")),
     Join(SrcDir, CLEAN_OUTPUT_DIR, LatestName("cleaned_data", "csv")),
     Join(SrcDir, CLEAN_OUTPUT_DIR, LatestName("cleaned_data", "json"))}

\* the charts of generate_visualizations.main, in the order it calls them
MainCharts == <<"global_trend", "top_countries", "regional_comparison">>
\* the charts of generate_eda.create_visualizations, in order
EdaCharts == <<"global_trend", "namibia_trend">>

\* the record of a stage run: how it ended, the table it had in hand (loaded,
\* or for the Fetcher normalized), the charts it attempted, the files it wrote
RunRecord(stage, outcome, loaded, attempted, wrote) ==
    [stage |-> stage, outcome |-> outcome, loaded |-> loaded,
     attempted |-> attempted, wrote |-> wrote]

NoRun == RunRecord("none", "none", NoTable, <<>>, {})

\* the snapshots found before the first run
InitialFiles ==
    {<<>>,
     [q \in {Join(SrcDir, CLEAN_INPUT_DIR, LatestName("raw_data", "csv"))} |-> HeaderOnly],
     [q \in {Join(RootDir, VIZ_INPUT_DIR, LatestName("cleaned_data", "csv"))} |-> HeaderOnly],
     [q \in {Join(AnalysisDir, EDA_DATA_DIR, LatestName("cleaned_data", "csv"))} |-> HandCopy],
     [q \in {Join(AnalysisDir, EDA_DATA_DIR, LatestName("cleaned_data", "csv"))} |-> HeaderOnly]}

PipeInit ==
    /\ fs \in InitialFiles
    /\ tick = 1
    /\ lastRaw = NoTable
    /\ lastClean = NoTable
    /\ lastRun = NoRun

PipeIdle ==
    /\ fs = <<>>
    /\ tick = 0
    /\ lastRaw = NoTable
    /\ lastClean = NoTable
    /\ lastRun = NoRun

OtherVars == <<fetchVars, discVars, normVars, canonVars, cleanVars, plotVars>>

\* main() of fetch_worldbank_data.py.  crashes: discover_indicator_id or
\* fetch_data raises; fetched: len(raw_data); usable: the records that
\* normalize_data does not skip
FetcherMain ==
    /\ tick <= MaxRuns
    /\ tick' = tick + 1
    /\ \E crashes \in BOOLEAN, fetched \in 0..MaxFetched :
       \E usable \in 0..fetched :
          IF crashes
          THEN /\ lastRun' = RunRecord("fetch", "raised", NoTable, <<>>, {})
               /\ UNCHANGED <<fs, lastRaw>>
          ELSE IF fetched = 0                       \* `if not raw_data`
          THEN /\ lastRun' = RunRecord("fetch", "returned", NoTable, <<>>, {})
               /\ UNCHANGED <<fs, lastRaw>>
          ELSE LET df == Table("fetch", tick, usable) IN
               /\ fs' = WriteAll(fs, RawSnapshotPaths(tick), df)
               /\ lastRaw' = df
               /\ lastRun' = RunRecord("fetch", "completed", df, <<>>, RawSnapshotPaths(tick))
    /\ UNCHANGED <<lastClean, OtherVars>>

\* main() of data_cleaning.py.  raises: clean_data raises; kept: the rows
\* left after drop_duplicates
CleanerMain ==
    /\ tick <= MaxRuns
    /\ tick' = tick + 1
    /\ LET latest_file == Join(SrcDir, CLEAN_INPUT_DIR, LatestName("raw_data", "csv")) IN
       IF ~ Exists(latest_file)                     \* load_raw_data returns None
       THEN /\ lastRun' = RunRecord("clean", "returned", NoTable, <<>>, {})
            /\ UNCHANGED <<fs, lastClean>>
       ELSE IF ~ fs[latest_file].cols               \* read_csv: EmptyDataError
       THEN /\ lastRun' = RunRecord("clean", "raised", NoTable, <<>>, {})
            /\ UNCHANGED <<fs, lastClean>>
       ELSE IF fs[latest_file].rows = 0             \* clean_data returns None
       THEN /\ lastRun' = RunRecord("clean", "returned", fs[latest_file], <<>>, {})
            /\ UNCHANGED <<fs, lastClean>>
       ELSE \E raises \in BOOLEAN, kept \in 1..fs[latest_file].rows :
            IF raises
            THEN /\ lastRun' = RunRecord("clean", "raised", fs[latest_file], <<>>, {})
                 /\ UNCHANGED <<fs, lastClean>>
            ELSE LET df == Table("clean", tick, kept) IN
                 /\ fs' = WriteAll(fs, CleanedSnapshotPaths(tick), df)
                 /\ lastClean' = df
                 /\ lastRun' = RunRecord("clean", "completed", fs[latest_file], <<>>,
                                     CleanedSnapshotPaths(tick))
    /\ UNCHANGED <<lastRaw, OtherVars>>

\* the charts main() of generate_visualizations.py attempts when the calls in
\* fails raise: a call that raises ends main (lines 189-196)
AttemptedByMain(charts, fails) ==
    IF \E i \in 1..Len(charts) : i \in fails
    THEN SubSeq(charts, 1, CHOOSE i \in 1..Len(charts) :
                               i \in fails /\ \A j \in 1..(i - 1) : j \notin fails)
    ELSE charts

\* the charts create_visualizations of generate_eda.py attempts: each is in
\* its own try/except Exception (lines 59-93)
AttemptedByEda(charts, fails) == charts

\* the plot files written by the attempted charts that did not fail
PlotPaths(cwd, dir, attempted, fails) ==
    {Join(cwd, dir, PlainName(attempted[i], "png")) :
        i \in {j \in 1..Len(attempted) : j \notin fails}}

\* the name sorted(files)[-1] picks among the names
LastSorted(names) == CHOOSE f \in names : \A g \in names : g = f \/ NameLt(g, f)

\* load_processed_data of generate_visualizations.py: the cleaned_data_*.csv
\* names of INPUT_DIR
ProcessedFiles ==
    {q.name : q \in {r \in DOMAIN fs :
        /\ r.dir = Resolve(RootDir, VIZ_INPUT_DIR)
        /\ r.name.stem = "cleaned_data"
        /\ r.name.tag \in {"latest", "ts"}
        /\ r.name.ext = "csv"}}

\* main() of generate_visualizations.py.  fails: the plot calls that raise
VisualizerMain ==
    /\ tick <= MaxRuns
    /\ tick' = tick + 1
    /\ IF ProcessedFiles = {}                       \* load_processed_data returns None
       THEN /\ lastRun' = RunRecord("viz", "returned", NoTable, <<>>, {})
            /\ UNCHANGED fs
       ELSE LET df == fs[Join(RootDir, VIZ_INPUT_DIR, LastSorted(ProcessedFiles))] IN
            IF df.rows = 0                          \* `df.empty`
            THEN /\ lastRun' = RunRecord("viz", "returned", df, <<>>, {})
                 /\ UNCHANGED fs
            ELSE \E fails \in SUBSET (1..Len(MainCharts)) :
                 LET attempted == AttemptedByMain(MainCharts, fails)
                     wrote == PlotPaths(RootDir, VIZ_OUTPUT_DIR, attempted, fails)
                 IN  /\ fs' = WriteAll(fs, wrote, Table("viz", tick, df.rows))
                     /\ lastRun' = RunRecord("viz", IF fails = {} THEN "completed" ELSE "raised",
                                         df, attempted, wrote)
    /\ UNCHANGED <<lastRaw, lastClean, OtherVars>>

\* main() of generate_eda.py.  fails: the chart blocks that raise
EdaMain ==
    /\ tick <= MaxRuns
    /\ tick' = tick + 1
    /\ LET latest_file == Join(AnalysisDir, EDA_DATA_DIR, LatestName("cleaned_data", "csv")) IN
       IF ~ Exists(latest_file)                     \* load_data returns None
       THEN /\ lastRun' = RunRecord("eda", "returned", NoTable, <<>>, {})
            /\ UNCHANGED fs
       ELSE LET df == fs[latest_file] IN
            IF df.rows = 0                          \* create_visualizations returns []
            THEN /\ lastRun' = RunRecord("eda", "returned", df, <<>>, {})
                 /\ UNCHANGED fs
            ELSE \E fails \in SUBSET (1..Len(EdaCharts)) :
                 LET attempted == AttemptedByEda(EdaCharts, fails)
                     wrote == PlotPaths(AnalysisDir, EDA_PLOTS_DIR, attempted, fails)
                 IN  /\ fs' = WriteAll(fs, wrote, Table("eda", tick, df.rows))
                     /\ lastRun' = RunRecord("eda", "completed", df, attempted, wrote)
    /\ UNCHANGED <<lastRaw, lastClean, OtherVars>>

(***************************************************************************)
(* Specifications                                                          *)
(***************************************************************************)
\* Fetch: the function is called; the other functions are not
InitFetch == FetchInit /\ DiscIdle /\ NormIdle /\ CanonIdle /\ CleanIdle /\ PlotIdle /\ PipeIdle
NextFetch == FetchPage
SpecFetch == InitFetch /\ [][NextFetch]_vars

\* Discover: the function is called; the other functions are not
InitDiscover == FetchIdle /\ DiscInit /\ NormIdle /\ CanonIdle /\ CleanIdle /\ PlotIdle /\ PipeIdle
NextDiscover == Discover
SpecDiscover == InitDiscover /\ [][NextDiscover]_vars

\* Normalize: the function is called; the other functions are not
InitNormalize == FetchIdle /\ DiscIdle /\ NormInit /\ CanonIdle /\ CleanIdle /\ PlotIdle /\ PipeIdle
NextNormalize == Normalize
SpecNormalize == InitNormalize /\ [][NextNormalize]_vars

\* Canon: the function is called; the other functions are not
InitCanon == FetchIdle /\ DiscIdle /\ NormIdle /\ CanonInit /\ CleanIdle /\ PlotIdle /\ PipeIdle
NextCanon == Replace
SpecCanon == InitCanon /\ [][NextCanon]_vars

\* Clean: the function is called; the other functions are not
InitClean == FetchIdle /\ DiscIdle /\ NormIdle /\ CanonIdle /\ CleanInit /\ PlotIdle /\ PipeIdle
NextClean == Clean \/ CleanAgain
SpecClean == InitClean /\ [][NextClean]_vars

\* Plot: the function is called; the other functions are not
InitPlot == FetchIdle /\ DiscIdle /\ NormIdle /\ CanonIdle /\ CleanIdle /\ PlotInit /\ PipeIdle
NextPlot == PlotTopCountries \/ PlotRegionalComparison
SpecPlot == InitPlot /\ [][NextPlot]_vars

\* Pipeline: the stages are run in any order, any number of times
InitPipeline ==
    FetchIdle /\ DiscIdle /\ NormIdle /\ CanonIdle /\ CleanIdle /\ PlotIdle /\ PipeInit
NextPipeline == FetcherMain \/ CleanerMain \/ VisualizerMain \/ EdaMain
SpecPipeline == InitPipeline /\ [][NextPipeline]_vars

(***************************************************************************)
(* Claims                                                                  *)
(***************************************************************************)
RECURSIVE ConcatBodies(_)
ConcatBodies(rs) ==
    IF rs = <<>> THEN <<>>
    ELSE ConcatBodies(SubSeq(rs, 1, Len(rs) - 1)) \o rs[Len(rs)].body

\* no response was a failure or a malformed body
NoRequestFailed == \A i \in 1..Len(responses) : FetchRaises(responses[i]) = "none"

\* C1: fetch_data requests pages 1, 2, 3, ... in increasing order, each at most
\* once; when no request fails it returns after the first page that is empty
\* or shorter than the page size, and returns the concatenation in page order
\* of the records of every page received (also when the record count is an
\* exact multiple of the page size).
C1_PagedRetrieval ==
    /\ requested = [i \in 1..Len(requested) |-> i]
    /\ Len(responses) = Len(requested)
    /\ (fetchPc = "loop" /\ NoRequestFailed) =>
          /\ page = Len(requested) + 1
          /\ \A i \in 1..Len(responses) : Len(responses[i].body) = PerPage
    /\ (fetchPc = "done" /\ NoRequestFailed) =>
          LET n == Len(responses) IN
          /\ n >= 1
          /\ Len(responses[n].body) < PerPage
          /\ \A i \in 1..(n - 1) : Len(responses[i].body) = PerPage
          /\ all_data = ConcatBodies(responses)

\* a run whose record count is an exact, non-zero multiple of the page size
C1_Witness ==
    /\ fetchPc = "done"
    /\ NoRequestFailed
    /\ Len(responses) >= 2
    /\ responses[Len(responses)] = [kind |-> "page", body |-> <<>>]
    /\ Len(all_data) = (Len(responses) - 1) * PerPage
    /\ \E i, j \in 1..Len(all_data) : all_data[i] # all_data[j]

\* C2: if the request for page p fails, fetch_data makes no further request
\* and returns exactly the records of pages 1..p-1, without raising.
C2_PartialResultOnFailure ==
    \A p \in 1..Len(responses) :
        responses[p].kind \in RequestExceptions =>
            /\ fetchPc = "done"
            /\ p = Len(responses)
            /\ requested = [i \in 1..p |-> i]
            /\ all_data = ConcatBodies(SubSeq(responses, 1, p - 1))
            /\ ~ ENABLED FetchPage

\* a failure after at least one full page was accumulated
C2_Witness ==
    /\ fetchPc = "done"
    /\ Len(responses) >= 2
    /\ responses[Len(responses)].kind = "HTTPError"
    /\ Len(all_data) = (Len(responses) - 1) * PerPage

\* the catalog's first entry whose name matches
FirstMatchIds ==
    {catalog.body[i].id : i \in {j \in 1..Len(catalog.body) :
        /\ catalog.body[j].name.kind = "str"
        /\ IsRelevant(catalog.body[j])
        /\ \A k \in 1..(j - 1) :
              catalog.body[k].name.kind # "str" \/ ~ IsRelevant(catalog.body[k])}}

\* C3: discover_indicator_id always returns an identifier and never propagates
\* a failure: the id of the first catalog entry whose name contains "household"
\* and ("fixed" or "mobile"), and the fallback IT.NET.USER.ZS whenever no entry
\* matches or the catalog request fails in any way (network error, error status,
\* or a response that is not the two-element [metadata, records] array).
C3_AlwaysReturnsIdentifier ==
    discPc = "done" =>
        /\ discResult.outcome = "returned"
        /\ IF catalog.kind = "catalog" /\ FirstMatchIds # {}
           THEN \E id \in FirstMatchIds : id.kind = "str" /\ discResult.value = id.text
           ELSE discResult.value = FALLBACK_ID

\* the positions of raw_data whose record flattens without error
Flattened == {i \in 1..Len(raw_data) : ~ RecordRaises(raw_data[i])}

\* C4: a record that raises while being flattened is skipped and every other
\* record yields exactly one output row, in input order; the call does not
\* raise and the row count is the number of records that flatten without error.
C4_SkipsOnlyRaisingRecords ==
    normPc = "done" =>
        /\ normResult.outcome = "returned"
        /\ Len(normResult.df) = Cardinality(Flattened)
        /\ \A i \in Flattened :
              LET k == Cardinality({j \in Flattened : j <= i}) IN
              normResult.df[k].Country = GetOr(raw_data[i].country, Str("Unknown"))

\* a batch with a raising record between two records that flatten
C4_Witness ==
    /\ normPc = "done"
    /\ Len(raw_data) >= 2
    /\ RecordRaises(raw_data[1])
    /\ ~ RecordRaises(raw_data[Len(raw_data)])
    /\ Len(normResult.df) = Len(raw_data) - 1

\* C8: the country-name canonicalization map is idempotent: for every Country
\* value, mapped or unmapped, applying the map twice gives the same name as
\* applying it once; no canonical target name is itself a key of the map.
C8_MappingIdempotent ==
    /\ Len(canonHistory) >= 2 => canonHistory[2].text \notin MappingKeys
    /\ \A i \in 3..Len(canonHistory) : canonHistory[i] = canonHistory[2]

\* a name the map rewrites, mapped twice
C8_Witness ==
    /\ Len(canonHistory) >= 3
    /\ canonHistory[1].text \in MappingKeys
    /\ canonHistory[2] # canonHistory[1]

\* whether a raw cell holds a valid number / a valid integer
ValidNumber(cell) == ToNumeric(cell) # NaN
ValidInteger(cell) == ValidNumber(cell) /\ IsWhole(ToNumeric(cell))

\* C5 (as claimed): for every non-empty raw table clean_data completes without
\* raising whatever the Year and Value cells contain; each cell that is not a
\* valid number (Year: not a valid integer) becomes null in the cleaned table
\* and its row is retained.  Stated for tables whose Indicator cells are filled.
C5_CoercionNeverRaises ==
    (/\ cleanPc # "start"
     /\ raw_df # <<>>
     /\ \A i \in 1..Len(raw_df) : raw_df[i].Indicator # NaN) =>
        /\ cleaned.outcome = "returned"
        /\ \A i \in 1..Len(raw_df) :
              \E k \in 1..Len(cleaned.df) :
                  /\ cleaned.df[k].Country = ReplaceCountry(FillNa(raw_df[i].Country))
                  /\ cleaned.df[k].Indicator = raw_df[i].Indicator
                  /\ cleaned.df[k].Year =
                        IF ValidInteger(raw_df[i].Year) THEN ToNumeric(raw_df[i].Year) ELSE NaN
                  /\ cleaned.df[k].Value =
                        IF ValidNumber(raw_df[i].Value) THEN ToNumeric(raw_df[i].Value) ELSE NaN

\* C6 (as claimed): in every table clean_data returns there is at most one row
\* for each (Country, Year) pair.
C6_OneRowPerCountryYear ==
    cleaned.outcome = "returned" =>
        \A i, j \in 1..Len(cleaned.df) :
            (/\ cleaned.df[i].Country = cleaned.df[j].Country
             /\ cleaned.df[i].Year = cleaned.df[j].Year) => i = j

\* C6 (amended): in every table clean_data returns no two rows are equal in
\* every column; rows that share Country and Year but differ in another
\* column are all kept.
C6_NoIdenticalRows ==
    /\ cleaned.outcome = "returned" =>
          \A i, j \in 1..Len(cleaned.df) : cleaned.df[i] = cleaned.df[j] => i = j
    /\ recleaned.outcome = "returned" =>
          \A i, j \in 1..Len(recleaned.df) : recleaned.df[i] = recleaned.df[j] => i = j

\* two raw rows that differ as text and are one row once standardized
C6_Witness ==
    /\ cleaned.outcome = "returned"
    /\ Len(raw_df) = 2
    /\ raw_df[1] # raw_df[2]
    /\ Len(cleaned.df) = 1

\* C7 (as claimed): clean_data on a table that holds no two identical rows
\* returns a table with the same number of rows.
C7_NoOpOnDistinctRows ==
    (/\ cleaned.outcome = "returned"
     /\ \A i, j \in 1..Len(raw_df) : raw_df[i] = raw_df[j] => i = j) =>
        Len(cleaned.df) = Len(raw_df)

\* C7 (amended): clean_data on a table clean_data returned returns a table
\* with the same number of rows.
C7_RecleanKeepsRowCount ==
    cleanPc = "recleaned" =>
        /\ recleaned.outcome = "returned"
        /\ Len(recleaned.df) = Len(cleaned.df)

\* a cleaned table of two rows of one country, cleaned again
C7_Witness ==
    /\ cleanPc = "recleaned"
    /\ Len(raw_df) >= 2
    /\ raw_df[1].Country # raw_df[2].Country
    /\ Len(recleaned.df) >= 2
    /\ recleaned.df[1].Country = recleaned.df[2].Country

\* the label a row's own Indicator cell determines
OwnConnectionType(cell) ==
    IF cell.kind = "str" THEN Str(ConnectionType(cell.text)) ELSE Str("unknown")

\* C9 (as claimed): connection_type is total and per row: clean_data returns
\* for every table with an Indicator column, and every row's label is the one
\* its own Indicator text determines, also when rows carry different
\* Indicator texts or the Indicator cell is missing.  Stated for tables
\* whose Year cells are whole numbers or no numbers.
C9_ConnectionTypePerRow ==
    (/\ cleanPc # "start"
     /\ raw_df # <<>>
     /\ \A i \in 1..Len(raw_df) : IsWhole(ToNumeric(raw_df[i].Year))) =>
        /\ cleaned.outcome = "returned"
        /\ \A k \in 1..Len(cleaned.df) :
              cleaned.df[k].connection_type = OwnConnectionType(cleaned.df[k].Indicator)

\* the non-null years of plot_df
YearsPresent == {plot_df[i].Year : i \in {j \in 1..Len(plot_df) : plot_df[j].Year # NaN}}

\* the latest year present in plot_df
LatestYear == CHOOSE y \in YearsPresent : \A z \in YearsPresent : z.num <= y.num

\* C10 (as claimed): plot_top_countries called on a non-empty table with a
\* year that has no rows falls back to the latest year present in the data and
\* produces the chart for that year, also when some rows have a null Year.
C10_FallsBackToLatestYear ==
    (/\ plotPc = "done"
     /\ chart.file = "top_countries"
     /\ YearsPresent # {}
     /\ plot_year \notin YearsPresent) =>
        /\ chart.outcome = "saved"
        /\ chart.year = LatestYear
        /\ chart.rows # <<>>

\* the charts a Visualizer run that got a table with rows is to attempt
PlannedCharts == IF lastRun.stage = "viz" THEN MainCharts ELSE EdaCharts

\* C11 (as claimed): in a Visualizer run each plotting operation is fault-
\* isolated: if one chart's operation fails, every remaining chart of that run
\* is still attempted, in generate_visualizations.main and in
\* generate_eda.create_visualizations.
C11_ChartsFaultIsolated ==
    (lastRun.stage \in {"viz", "eda"} /\ lastRun.loaded.rows > 0) =>
        lastRun.attempted = PlannedCharts

\* C12 (as claimed): no stage run writes an output artifact from a missing or
\* empty dataset: a Fetcher run with zero usable records, a Cleaner run whose
\* raw latest snapshot is absent or has zero rows, and a Visualizer run whose
\* cleaned snapshot is absent or has zero rows write no file.
C12_NoOutputFromEmptyDataset ==
    (lastRun.stage # "none" /\ lastRun.loaded.rows = 0) => lastRun.wrote = {}

\* C13 (as claimed): each downstream stage reads exactly the table written by
\* the most recent completed run of its upstream stage: the Cleaner loads the
\* Fetcher's last raw latest snapshot, and each Visualizer entry point loads
\* the Cleaner's last cleaned latest snapshot from where the Cleaner wrote it,
\* never an older timestamped snapshot and never a no-result while that
\* snapshot exists.  Stated for snapshots that hold rows.
C13_DownstreamReadsLatestUpstream ==
    /\ (lastRun.stage = "clean" /\ lastRaw.rows > 0) => lastRun.loaded = lastRaw
    /\ (lastRun.stage \in {"viz", "eda"} /\ lastClean.rows > 0) => lastRun.loaded = lastClean

\* the regions plot_regional_comparison averages a row of the country into
RegionsCounting(country) ==
    LET avgs == RegionalAvgs(<<[Country |-> country, Year |-> Num(20200), Value |-> Num(555)]>>,
                             RegionOrder)
    IN  {avgs[i].Region : i \in 1..Len(avgs)}

\* C14 (as claimed): no country name of the region-membership lists is
\* rewritten by the canonicalization map: a raw row whose Country is a listed
\* region member is, after clean, still in that region's list, so
\* plot_regional_comparison counts it in that region's mean.
C14_RegionMembersKeepRegion ==
    \A r \in DOMAIN Regions :
        (Len(canonHistory) >= 2 /\ canonHistory[1].text \in Regions[r]) =>
            /\ canonHistory[2].text \in Regions[r]
            /\ r \in RegionsCounting(canonHistory[2].text)
====
